---- MODULE Spec2Model ----
(***************************************************************************)
(* Papir card backend: the card lifecycle handlers of the server revisions *)
(* (src/server.js holds three of them, src/unnamed/part_001 a fourth) and  *)
(* the batch id generator (src/generate-cards.js, src/unnamed/part_002),   *)
(* over a model of the hosted `cards` table and the media bucket.          *)
(*                                                                         *)
(* Revisions:                                                              *)
(*   "A"  src/server.js 1-602      insert-only Save, Get filters active,   *)
(*                                  soft delete                            *)
(*   "B"  src/server.js 604-929    check-then-insert-or-update Save with   *)
(*                                  client status, Get upper-cases, hard   *)
(*                                  delete with media cleanup              *)
(*   "C"  src/server.js 931-1654   activation variant: Save inserts        *)
(*                                  pending, Activate, IncrementScanCount, *)
(*                                  soft delete, Get without filter        *)
(*   "U"  src/unnamed/part_001     upsert Save, Get upper-cases, hard      *)
(*                                  delete                                 *)
(*                                                                         *)
(* JavaScript strings are sequences of one-character strings, so that      *)
(* trim() and toUpperCase() are computed.  null / undefined are NULL and   *)
(* Undef for string values, NullN and UndefN for numbers, "null" and       *)
(* "undefined" for the status enumeration.                                 *)
(***************************************************************************)
EXTENDS Integers, Sequences, FiniteSets, TLC

\* ------------------------------------------------------------ bounds ----
NProcs == 2
MaxClock == 3
BATCH_SIZE == 2

Procs == 1..NProcs

\* ------------------------------------------------------ JS values -------
NULL == <<"null">>
Undef == <<"undefined">>
NullN == 0 - 1
UndefN == 0 - 2

TruthyS(v) == v \notin {NULL, Undef, <<>>}
TruthyN(v) == v \notin {NullN, UndefN, 0}
TruthyE(v) == v \notin {"null", "undefined", ""}

OrS(v, d) == IF TruthyS(v) THEN v ELSE d
OrN(v, d) == IF TruthyN(v) THEN v ELSE d
OrE(v, d) == IF TruthyE(v) THEN v ELSE d

RECURSIVE TrimLeft(_)
TrimLeft(s) == IF s # <<>> /\ Head(s) = " " THEN TrimLeft(Tail(s)) ELSE s

RECURSIVE TrimRight(_)
TrimRight(s) ==
  IF s # <<>> /\ s[Len(s)] = " " THEN TrimRight(SubSeq(s, 1, Len(s) - 1)) ELSE s

Trim(s) == TrimRight(TrimLeft(s))

UpperChar(c) ==
  CASE c = "a" -> "A"
    [] c = "h" -> "H"
    [] c = "i" -> "I"
    [] c = "o" -> "O"
    [] c = "y" -> "Y"
    [] OTHER -> c

ToUpperCase(s) == [i \in 1..Len(s) |-> UpperChar(s[i])]

\* ------------------------------------------------- the cards table ------
StrCols == {"card_id", "message_type", "message_text", "media_url",
            "file_name", "file_type", "file_url", "created_by_ip",
            "updated_by_ip", "activated_by_ip", "terms_accepted_ip"}
NumCols == {"file_size", "scan_count", "created_at", "updated_at",
            "activated_at", "terms_accepted_at"}
Columns == StrCols \cup NumCols \cup {"status"}

IsUndefAt(c, v) ==
  IF c \in NumCols THEN v = UndefN
  ELSE IF c = "status" THEN v = "undefined"
  ELSE v = Undef

\* JSON.stringify drops the keys whose value is undefined
Json(rec) ==
  LET keep == {c \in DOMAIN rec : ~IsUndefAt(c, rec[c])}
  IN  [c \in keep |-> rec[c]]

\* the value a column takes when an insert does not name it
ColumnDefault(c, sd) ==
  IF c = "scan_count" THEN sd
  ELSE IF c \in NumCols THEN NullN
  ELSE IF c = "status" THEN "null"
  ELSE NULL

NoRow == [c \in Columns |-> ColumnDefault(c, NullN)]

NewRow(rec, sd) ==
  LET j == Json(rec)
  IN  [c \in Columns |-> IF c \in DOMAIN j THEN j[c] ELSE ColumnDefault(c, sd)]

Patch(row, rec) ==
  LET j == Json(rec)
  IN  [c \in Columns |-> IF c \in DOMAIN j THEN j[c] ELSE row[c]]

HasKey(tbl, key) == \E i \in 1..Len(tbl) : tbl[i].card_id = key

SelectEq(tbl, key) == SelectSeq(tbl, LAMBDA r : r.card_id = key)

SelectActive(tbl, key) ==
  SelectSeq(tbl, LAMBDA r : r.card_id = key /\ r.status = "active")

\* .single(): exactly one row, else error PGRST116
Single(rows) ==
  IF Len(rows) = 1 THEN [data |-> rows[1], found |-> TRUE, error |-> "none"]
  ELSE [data |-> NoRow, found |-> FALSE, error |-> "PGRST116"]

\* .maybeSingle(): no row is data null without error
MaybeSingle(rows) ==
  IF Len(rows) = 1 THEN [data |-> rows[1], found |-> TRUE, error |-> "none"]
  ELSE IF Len(rows) = 0 THEN [data |-> NoRow, found |-> FALSE, error |-> "none"]
  ELSE [data |-> NoRow, found |-> FALSE, error |-> "PGRST116"]

\* insert of a list of records: the unique constraint on card_id rejects
\* the whole statement with 23505
RECURSIVE Distinct(_)
Distinct(recs) ==
  IF recs = <<>> THEN TRUE
  ELSE /\ \A i \in 2..Len(recs) : recs[i].card_id # recs[1].card_id
       /\ Distinct(Tail(recs))

InsertOk(tbl, recs) ==
  /\ \A i \in 1..Len(recs) : ~HasKey(tbl, recs[i].card_id)
  /\ Distinct(recs)

InsertRows(tbl, recs, sd) ==
  tbl \o [i \in 1..Len(recs) |-> NewRow(recs[i], sd)]

UpdateEq(tbl, key, rec) ==
  [i \in 1..Len(tbl) |-> IF tbl[i].card_id = key THEN Patch(tbl[i], rec) ELSE tbl[i]]

DeleteEq(tbl, key) == SelectSeq(tbl, LAMBDA r : r.card_id # key)

\* upsert with onConflict: 'card_id', ignoreDuplicates: false
Upsert(tbl, rec, sd) ==
  IF HasKey(tbl, rec.card_id) THEN UpdateEq(tbl, rec.card_id, rec)
  ELSE InsertRows(tbl, <<rec>>, sd)

\* .order('created_at', { ascending: false }); NULLs sort first
Later(a, b) == IF a = NullN THEN b # NullN ELSE b # NullN /\ a > b

RECURSIVE InsertDesc(_, _)
InsertDesc(r, s) ==
  IF s = <<>> THEN <<r>>
  ELSE IF Later(r.created_at, Head(s).created_at) THEN <<r>> \o s
  ELSE <<Head(s)>> \o InsertDesc(r, Tail(s))

RECURSIVE OrderDesc(_)
OrderDesc(tbl) ==
  IF tbl = <<>> THEN <<>>
  ELSE InsertDesc(tbl[Len(tbl)], OrderDesc(SubSeq(tbl, 1, Len(tbl) - 1)))


\* --------------------------------------------------- request inputs -----
\* card ids as the generators make them: generateCardId() of
\* generate-cards.js (upper-case, no prefix) and of generateBatch ('CARD_' +)
PlainId == <<"A">>
PrefixedId == <<"C", "_">> \o PlainId

\* what a client types: a generator id, or a lower-case id with a blank
RawIds == {PlainId, <<"a", " ">>, PrefixedId}

ClientIp == <<"i", "p">>

TEXT == <<"t", "e", "x", "t">>
HI == <<"h", "i">>
YO_ == <<"y", "o", " ">>

NoBody ==
  [message_type |-> Undef, message_text |-> Undef, media_url |-> Undef,
   file_name |-> Undef, file_size |-> UndefN, file_type |-> Undef,
   file_url |-> Undef, status |-> "undefined"]

\* request bodies of POST /api/cards; the handlers of revisions A and C do
\* not read body.status
ContentBodies ==
  { [NoBody EXCEPT !.message_type = TEXT, !.message_text = HI],
    [NoBody EXCEPT !.message_type = TEXT, !.message_text = YO_],
    [NoBody EXCEPT !.message_type = <<"v">>, !.media_url = <<"u">>,
                   !.file_name = <<"f">>, !.file_size = 5, !.file_type = <<"m">>] }

Bodies ==
  ContentBodies \cup
  { [NoBody EXCEPT !.message_type = TEXT, !.message_text = HI, !.status = "pending"] }

AllKeys == RawIds \cup {Trim(i) : i \in RawIds} \cup {ToUpperCase(i) : i \in RawIds}

\* ------------------------------------------------------------ state -----
VARIABLES
  rev,          \* which server revision is deployed
  ids,          \* the card ids in play: what requests carry, what is printed
  scanDefault,  \* the table's default for a scan_count an insert omits
  cards,        \* the cards table: a sequence of rows
  media,        \* the media bucket: a set of <<folder, name>> object paths
  now,          \* the clock: advances with every write to a store
  pc, req, loc, \* per request slot in flight: position, request, locals
  out,          \* the answer sent by the step just taken, if it sent one
  hist,         \* per card_id: what has happened to it so far
  gen           \* the card generator script: its position and its locals

vars == <<rev, ids, scanDefault, cards, media, now, pc, req, loc, out, hist, gen>>

NoReq == [op |-> "none", card_id |-> NULL, body |-> NoBody]
NoLoc == [found |-> FALSE, n |-> 0, files |-> {}]
NoResp == [code |-> 0, success |-> FALSE, error |-> "none", card |-> NoRow,
           count |-> 0, list |-> <<>>]

NoOut == [req |-> NoReq, resp |-> NoResp]

Reply(c, ok, e) == [NoResp EXCEPT !.code = c, !.success = ok, !.error = e]

\* the generator script when it is not running
NoFile == <<>>

GenOff ==
  [pc |-> "off", variant |-> "none", snapshot |-> {}, existingDbIds |-> {},
   existingIds |-> {}, newCards |-> <<>>, csvRows |-> <<>>,
   generated |-> 0, attempts |-> 0, manifest |-> NoFile, error |-> "none"]

InitRev(R, I) ==
  /\ gen = GenOff
  /\ rev \in R
  /\ ids \in I
  /\ scanDefault \in {0, NullN}
  /\ cards = <<>>
  /\ media = {}
  /\ now = 0
  /\ pc = [p \in Procs |-> "idle"]
  /\ req = [p \in Procs |-> NoReq]
  /\ loc = [p \in Procs |-> NoLoc]
  /\ out = NoOut
  /\ hist = [k \in AllKeys |-> [used |-> FALSE, wasActive |-> FALSE,
                                activations |-> 0, scans |-> 0,
                                saved |-> FALSE, deleted |-> FALSE]]

\* prefixed ids exist only where cards are pre-printed, which is the
\* activation deployment (revision C)
Init ==
  \/ InitRev({"A", "B", "U"}, {RawIds \ {PrefixedId}})
  \/ InitRev({"C"}, {RawIds})

Free(p) == pc[p] = "idle"

\* the slot answers request q with response r and is free again
Finish(p, q, r) ==
  /\ pc' = [pc EXCEPT ![p] = "idle"]
  /\ req' = [req EXCEPT ![p] = NoReq]
  /\ loc' = [loc EXCEPT ![p] = NoLoc]
  /\ out' = [req |-> q, resp |-> r]

\* the slot suspends at an await, with locals l
Await(p, q, at, l) ==
  /\ pc' = [pc EXCEPT ![p] = at]
  /\ req' = [req EXCEPT ![p] = q]
  /\ loc' = [loc EXCEPT ![p] = l]
  /\ out' = NoOut

\* a write to the table at the current time
Write(tbl) == cards' = tbl /\ now' = now + 1
NoWrite == cards' = cards /\ now' = now

StatusIn(tbl, k, s) == \E i \in 1..Len(tbl) : tbl[i].card_id = k /\ tbl[i].status = s

\* history of each card_id over the step just taken; incs are the card_ids
\* an IncrementScanCount call has just answered success for; saved says
\* that a Save of this card_id has succeeded and no Delete of it was
\* answered since, deleted that a Delete of this card_id has succeeded
\* after it identified a row and no Save of it has succeeded since
Track(incs) ==
  hist' = [k \in AllKeys |->
    [used |-> hist[k].used \/ HasKey(cards', k),
     wasActive |-> hist[k].wasActive \/ StatusIn(cards', k, "active"),
     activations |-> hist[k].activations +
        (IF StatusIn(cards, k, "pending") /\ ~StatusIn(cards, k, "active")
            /\ StatusIn(cards', k, "active") THEN 1 ELSE 0),
     scans |-> hist[k].scans + (IF k \in incs THEN 1 ELSE 0),
     saved |-> IF out'.req.card_id = k /\ out'.req.op = "delete" THEN FALSE
               ELSE IF out'.req.card_id = k /\ out'.req.op = "save"
                       /\ out'.resp.success THEN TRUE
               ELSE hist[k].saved,
     deleted |-> IF out'.req.card_id = k /\ out'.req.op = "save"
                    /\ out'.resp.success THEN FALSE
                 ELSE IF out'.req.card_id = k /\ out'.req.op = "delete"
                         /\ out'.resp.success /\ hist[k].used THEN TRUE
                 ELSE hist[k].deleted]]

\* ================================================= revision A: Save =====
\* app.post('/api/cards'), insert-only
SaveRecordA(id, b, t) ==
  [card_id |-> Trim(id),
   message_type |-> Trim(b.message_type),
   message_text |-> IF TruthyS(b.message_text) THEN Trim(b.message_text) ELSE NULL,
   media_url |-> OrS(b.media_url, NULL),
   file_name |-> OrS(b.file_name, NULL),
   file_size |-> OrN(b.file_size, NullN),
   file_type |-> OrS(b.file_type, NULL),
   status |-> "active",
   created_by_ip |-> ClientIp,
   updated_by_ip |-> ClientIp,
   created_at |-> t,
   updated_at |-> t]

SaveA(p) ==
  /\ rev = "A" /\ Free(p)
  /\ \E id \in ids, b \in ContentBodies :
       LET q == [op |-> "save", card_id |-> id, body |-> b]
           rec == SaveRecordA(id, b, now)
       IN  IF ~TruthyS(id) \/ ~TruthyS(b.message_type)
           THEN NoWrite /\ Finish(p, q, Reply(400, FALSE, "missing"))
           ELSE IF InsertOk(cards, <<rec>>)
           THEN /\ now < MaxClock
                /\ Write(InsertRows(cards, <<rec>>, scanDefault))
                /\ Finish(p, q, [Reply(201, TRUE, "none") EXCEPT
                                   !.card = NewRow(rec, scanDefault)])
           ELSE NoWrite /\ Finish(p, q, Reply(409, FALSE, "duplicate"))
  /\ UNCHANGED <<gen, rev, ids, scanDefault, media>>
  /\ Track({})

\* ================================================= revision B: Save =====
\* app.post('/api/cards'), check then insert or update, client status
SaveB_Check(p) ==
  /\ rev = "B" /\ Free(p)
  /\ \E id \in ids, b \in Bodies :
       Await(p, [op |-> "save", card_id |-> id, body |-> b], "save_write",
             [NoLoc EXCEPT !.found = Single(SelectEq(cards, id)).found])
  /\ NoWrite
  /\ UNCHANGED <<gen, rev, ids, scanDefault, media>>
  /\ Track({})

UpdateDataB(b, t) ==
  [message_type |-> b.message_type,
   message_text |-> b.message_text,
   status |-> OrE(b.status, "active"),
   updated_at |-> t,
   file_name |-> IF TruthyS(b.file_name) THEN b.file_name ELSE Undef,
   file_size |-> IF TruthyN(b.file_size) THEN b.file_size ELSE UndefN,
   file_type |-> IF TruthyS(b.file_type) THEN b.file_type ELSE Undef,
   file_url |-> IF TruthyS(b.file_url) THEN b.file_url ELSE Undef,
   media_url |-> IF TruthyS(b.media_url) THEN b.media_url ELSE Undef]

InsertDataB(id, b, t) ==
  [card_id |-> id,
   message_type |-> b.message_type,
   message_text |-> b.message_text,
   status |-> OrE(b.status, "active"),
   created_at |-> t,
   updated_at |-> t,
   file_name |-> IF TruthyS(b.file_name) THEN b.file_name ELSE Undef,
   file_size |-> IF TruthyN(b.file_size) THEN b.file_size ELSE UndefN,
   file_type |-> IF TruthyS(b.file_type) THEN b.file_type ELSE Undef,
   file_url |-> IF TruthyS(b.file_url) THEN b.file_url ELSE Undef,
   media_url |-> IF TruthyS(b.media_url) THEN b.media_url ELSE Undef]

SaveB_Write(p) ==
  /\ rev = "B" /\ pc[p] = "save_write"
  /\ LET q == req[p]
         id == q.card_id
         upd == UpdateEq(cards, id, UpdateDataB(q.body, now))
         rec == InsertDataB(id, q.body, now)
     IN  IF loc[p].found
         THEN IF HasKey(cards, id)
              THEN /\ now < MaxClock
                   /\ Write(upd)
                   /\ Finish(p, q, [Reply(200, TRUE, "none") EXCEPT
                                      !.card = Single(SelectEq(upd, id)).data])
              ELSE NoWrite /\ Finish(p, q, Reply(500, FALSE, "db"))
         ELSE IF InsertOk(cards, <<rec>>)
              THEN /\ now < MaxClock
                   /\ Write(InsertRows(cards, <<rec>>, scanDefault))
                   /\ Finish(p, q, [Reply(200, TRUE, "none") EXCEPT
                                      !.card = NewRow(rec, scanDefault)])
              ELSE NoWrite /\ Finish(p, q, Reply(500, FALSE, "db"))
  /\ UNCHANGED <<gen, rev, ids, scanDefault, media>>
  /\ Track({})

\* ================================================= revision C: Save =====
\* app.post('/api/cards'), activation variant
SaveC_Check(p) ==
  /\ rev = "C" /\ Free(p)
  /\ \E id \in ids, b \in ContentBodies :
       LET q == [op |-> "save", card_id |-> id, body |-> b]
       IN  IF ~TruthyS(id) \/ ~TruthyS(b.message_type)
           THEN Finish(p, q, Reply(400, FALSE, "missing"))
           ELSE Await(p, q, "save_write",
                      [NoLoc EXCEPT !.found = MaybeSingle(SelectEq(cards, id)).found])
  /\ NoWrite
  /\ UNCHANGED <<gen, rev, ids, scanDefault, media>>
  /\ Track({})

UpdateDataC_m(b, t) ==
  [message_type |-> Trim(b.message_type),
   message_text |-> IF TruthyS(b.message_text) THEN Trim(b.message_text) ELSE NULL,
   media_url |-> OrS(b.media_url, NULL),
   file_name |-> OrS(b.file_name, NULL),
   file_size |-> OrN(b.file_size, NullN),
   file_type |-> OrS(b.file_type, NULL),
   status |-> "pending",
   updated_by_ip |-> ClientIp,
   updated_at |-> t]

\* the payload of the update branch
UpdateDataC(b, t) ==
  [message_type |-> Trim(b.message_type),
   message_text |-> IF TruthyS(b.message_text) THEN Trim(b.message_text) ELSE NULL,
   media_url |-> OrS(b.media_url, NULL),
   file_name |-> OrS(b.file_name, NULL),
   file_size |-> OrN(b.file_size, NullN),
   file_type |-> OrS(b.file_type, NULL),
   updated_by_ip |-> ClientIp,
   updated_at |-> t]

CardRecordC_m(id, b, t) ==
  [card_id |-> Trim(id),
   message_type |-> Trim(b.message_type),
   message_text |-> IF TruthyS(b.message_text) THEN Trim(b.message_text) ELSE NULL,
   media_url |-> OrS(b.media_url, NULL),
   file_name |-> OrS(b.file_name, NULL),
   file_size |-> OrN(b.file_size, NullN),
   file_type |-> OrS(b.file_type, NULL),
   status |-> "active",
   created_by_ip |-> ClientIp,
   updated_by_ip |-> ClientIp,
   created_at |-> t,
   updated_at |-> t]

CardRecordC(id, b, t) ==
  [card_id |-> Trim(id),
   message_type |-> Trim(b.message_type),
   message_text |-> IF TruthyS(b.message_text) THEN Trim(b.message_text) ELSE NULL,
   media_url |-> OrS(b.media_url, NULL),
   file_name |-> OrS(b.file_name, NULL),
   file_size |-> OrN(b.file_size, NullN),
   file_type |-> OrS(b.file_type, NULL),
   scan_count |-> 0,
   status |-> "pending",
   created_by_ip |-> ClientIp,
   updated_by_ip |-> ClientIp,
   created_at |-> t,
   updated_at |-> t]

SaveC_Write(p) ==
  /\ rev = "C" /\ pc[p] = "save_write"
  /\ LET q == req[p]
         id == q.card_id
         upd == UpdateEq(cards, id, UpdateDataC(q.body, now))
         rec == CardRecordC(id, q.body, now)
     IN  IF loc[p].found
         THEN IF HasKey(cards, id)
              THEN /\ now < MaxClock
                   /\ Write(upd)
                   /\ Finish(p, q, [Reply(201, TRUE, "none") EXCEPT
                                      !.card = Single(SelectEq(upd, id)).data])
              ELSE NoWrite /\ Finish(p, q, Reply(500, FALSE, "internal"))
         ELSE IF InsertOk(cards, <<rec>>)
              THEN /\ now < MaxClock
                   /\ Write(InsertRows(cards, <<rec>>, scanDefault))
                   /\ Finish(p, q, [Reply(201, TRUE, "none") EXCEPT
                                      !.card = NewRow(rec, scanDefault)])
              ELSE NoWrite /\ Finish(p, q, Reply(500, FALSE, "internal"))
  /\ UNCHANGED <<gen, rev, ids, scanDefault, media>>
  /\ Track({})

\* ================================================= revision U: Save =====
\* app.post('/api/cards'), upsert
CardDataU(id, b) ==
  [card_id |-> ToUpperCase(id),
   message_type |-> OrS(b.message_type, TEXT),
   message_text |-> OrS(b.message_text, <<>>),
   status |-> IF b.status = "undefined" THEN "active" ELSE b.status,
   file_name |-> IF TruthyS(b.file_name) THEN b.file_name ELSE Undef,
   file_size |-> IF TruthyN(b.file_size) THEN b.file_size ELSE UndefN,
   file_type |-> IF TruthyS(b.file_type) THEN b.file_type ELSE Undef,
   file_url |-> IF TruthyS(b.file_url) THEN b.file_url ELSE Undef,
   media_url |-> IF TruthyS(b.media_url) THEN b.media_url ELSE Undef]

SaveU(p) ==
  /\ rev = "U" /\ Free(p)
  /\ \E id \in ids, b \in Bodies :
       LET q == [op |-> "save", card_id |-> id, body |-> b]
           rec == CardDataU(id, b)
           tbl == Upsert(cards, rec, scanDefault)
       IN  IF ~TruthyS(id)
           THEN NoWrite /\ Finish(p, q, Reply(400, FALSE, "missing"))
           ELSE /\ now < MaxClock
                /\ Write(tbl)
                /\ Finish(p, q, [Reply(200, TRUE, "none") EXCEPT
                                   !.card = Single(SelectEq(tbl, rec.card_id)).data])
  /\ UNCHANGED <<gen, rev, ids, scanDefault, media>>
  /\ Track({})

\* ======================================================== Get, List =====
\* app.get('/api/cards/:card_id'), revision A: only an active row is found
GetA(p) ==
  /\ rev = "A" /\ Free(p)
  /\ \E id \in ids :
       LET q == [op |-> "get", card_id |-> id, body |-> NoBody]
           r == Single(SelectActive(cards, id))
       IN  IF r.found
           THEN Finish(p, q, [Reply(200, TRUE, "none") EXCEPT !.card = r.data])
           ELSE Finish(p, q, Reply(404, FALSE, "notfound"))
  /\ NoWrite
  /\ UNCHANGED <<gen, rev, ids, scanDefault, media>>
  /\ Track({})

\* app.get('/api/cards/:cardId'), revisions B and U: the key is upper-cased
GetUpper(p) ==
  /\ rev \in {"B", "U"} /\ Free(p)
  /\ \E id \in ids :
       LET q == [op |-> "get", card_id |-> id, body |-> NoBody]
           r == Single(SelectEq(cards, ToUpperCase(id)))
       IN  IF r.found
           THEN Finish(p, q, [Reply(200, TRUE, "none") EXCEPT !.card = r.data])
           ELSE Finish(p, q, Reply(404, FALSE, "notfound"))
  /\ NoWrite
  /\ UNCHANGED <<gen, rev, ids, scanDefault, media>>
  /\ Track({})

\* app.get('/api/cards/:card_id'), revision C: no status filter
GetC(p) ==
  /\ rev = "C" /\ Free(p)
  /\ \E id \in ids :
       LET q == [op |-> "get", card_id |-> id, body |-> NoBody]
           r == Single(SelectEq(cards, id))
       IN  IF r.found
           THEN Finish(p, q, [Reply(200, TRUE, "none") EXCEPT !.card = r.data])
           ELSE Finish(p, q, Reply(404, FALSE, "notfound"))
  /\ NoWrite
  /\ UNCHANGED <<gen, rev, ids, scanDefault, media>>
  /\ Track({})

\* app.get('/api/cards'), the same query in every revision
ListCards(p) ==
  /\ Free(p)
  /\ Finish(p, [op |-> "list", card_id |-> NULL, body |-> NoBody],
            [Reply(200, TRUE, "none") EXCEPT !.list = OrderDesc(cards),
                                             !.count = Len(cards)])
  /\ NoWrite
  /\ UNCHANGED <<gen, rev, ids, scanDefault, media>>
  /\ Track({})

\* =========================================================== Delete =====
\* app.delete('/api/cards/:card_id'), revisions A and C: soft delete
SoftDeleteData(t) ==
  [status |-> "deleted", updated_by_ip |-> ClientIp, updated_at |-> t]

DeleteSoft(p) ==
  /\ rev \in {"A", "C"} /\ Free(p)
  /\ now < MaxClock
  /\ \E id \in ids :
       /\ Write(UpdateEq(cards, id, SoftDeleteData(now)))
       /\ Finish(p, [op |-> "delete", card_id |-> id, body |-> NoBody],
                 Reply(200, TRUE, "none"))
  /\ UNCHANGED <<gen, rev, ids, scanDefault, media>>
  /\ Track({})

\* app.delete('/api/cards/:cardId'), revision B: row removal, then the
\* card's media folder is listed and its objects removed, best effort
DeleteB_Row(p) ==
  /\ rev = "B" /\ Free(p)
  /\ now < MaxClock
  /\ \E id \in ids :
       /\ Write(DeleteEq(cards, id))
       /\ Await(p, [op |-> "delete", card_id |-> id, body |-> NoBody],
                "del_list", NoLoc)
  /\ UNCHANGED <<gen, rev, ids, scanDefault, media>>
  /\ Track({})

Folder(m, id) == {o \in m : o.folder = id}

DeleteB_List(p) ==
  /\ rev = "B" /\ pc[p] = "del_list"
  /\ \E ok \in BOOLEAN :
       LET files == IF ok THEN {o.name : o \in Folder(media, req[p].card_id)} ELSE {}
       IN  IF files # {}
           THEN Await(p, req[p], "del_remove", [NoLoc EXCEPT !.files = files])
           ELSE Finish(p, req[p], Reply(200, TRUE, "none"))
  /\ NoWrite
  /\ UNCHANGED <<gen, rev, ids, scanDefault, media>>
  /\ Track({})

DeleteB_Remove_m(p) ==
  /\ rev = "B" /\ pc[p] = "del_remove"
  /\ \E ok \in BOOLEAN :
       /\ media' = IF ok
                   THEN {o \in media : ~(o.folder = req[p].card_id /\ o.name \in loc[p].files)}
                   ELSE media
       /\ Finish(p, req[p], IF ok THEN Reply(200, TRUE, "none")
                            ELSE Reply(500, FALSE, "internal"))
  /\ NoWrite
  /\ UNCHANGED <<gen, rev, ids, scanDefault>>
  /\ Track({})

\* remove(filePaths) inside the inner try/catch, then the success answer
DeleteB_Remove(p) ==
  /\ rev = "B" /\ pc[p] = "del_remove"
  /\ \E ok \in BOOLEAN :
       media' = IF ok
                THEN {o \in media : ~(o.folder = req[p].card_id /\ o.name \in loc[p].files)}
                ELSE media
  /\ Finish(p, req[p], Reply(200, TRUE, "none"))
  /\ NoWrite
  /\ UNCHANGED <<gen, rev, ids, scanDefault>>
  /\ Track({})

\* app.delete('/api/cards/:cardId'), revision U: row removal by upper-cased key
DeleteU(p) ==
  /\ rev = "U" /\ Free(p)
  /\ now < MaxClock
  /\ \E id \in ids :
       /\ Write(DeleteEq(cards, ToUpperCase(id)))
       /\ Finish(p, [op |-> "delete", card_id |-> id, body |-> NoBody],
                 Reply(200, TRUE, "none"))
  /\ UNCHANGED <<gen, rev, ids, scanDefault, media>>
  /\ Track({})

\* ================================== pre-printed cards (revision C) ======
\* the bulk insert of the generator, seen from the server: generate-cards.js
\* rows carry scan_count 0 and null content, generateBatch rows only
\* card_id, status and created_at
PendingRowG1(id, t) ==
  [card_id |-> id, message_type |-> <<"p">>, message_text |-> NULL,
   media_url |-> NULL, file_name |-> NULL, file_size |-> NullN,
   file_type |-> NULL, status |-> "pending", scan_count |-> 0,
   created_at |-> t, updated_at |-> t]

PendingRowG2(id, t) == [card_id |-> id, status |-> "pending", created_at |-> t]

PrePrint(p) ==
  /\ rev = "C" /\ Free(p)
  /\ now < MaxClock
  /\ \E rec \in {PendingRowG1(PlainId, now), PendingRowG2(PrefixedId, now)} :
       /\ rec.card_id \in ids
       /\ InsertOk(cards, <<rec>>)
       /\ Write(InsertRows(cards, <<rec>>, scanDefault))
  /\ UNCHANGED <<gen, rev, ids, scanDefault, media, pc, req, loc>>
  /\ out' = NoOut
  /\ Track({})

\* ============================================ Activate (revision C) =====
Activate_Read_m(p) ==
  /\ rev = "C" /\ Free(p)
  /\ \E id \in ids :
       LET q == [op |-> "activate", card_id |-> id, body |-> NoBody]
           r == Single(SelectEq(cards, id))
       IN  IF ~r.found
           THEN Finish(p, q, Reply(200, FALSE, "notfound"))
           ELSE Await(p, q, "act_write", NoLoc)
  /\ NoWrite
  /\ UNCHANGED <<gen, rev, ids, scanDefault, media>>
  /\ Track({})

\* app.post('/api/activate-card'): read the status, then update by card_id
Activate_Read(p) ==
  /\ rev = "C" /\ Free(p)
  /\ \E id \in ids :
       LET q == [op |-> "activate", card_id |-> id, body |-> NoBody]
           r == Single(SelectEq(cards, id))
       IN  IF ~r.found
           THEN Finish(p, q, Reply(200, FALSE, "notfound"))
           ELSE IF r.data.status # "pending"
           THEN Finish(p, q, Reply(200, FALSE, "already"))
           ELSE Await(p, q, "act_write", NoLoc)
  /\ NoWrite
  /\ UNCHANGED <<gen, rev, ids, scanDefault, media>>
  /\ Track({})

ActivateData_m(t) == [status |-> "active"]

\* the payload of the activate-card update
ActivateData(t) ==
  [status |-> "active",
   activated_at |-> t,
   activated_by_ip |-> ClientIp,
   terms_accepted_at |-> t,
   terms_accepted_ip |-> ClientIp]

Activate_Write(p) ==
  /\ rev = "C" /\ pc[p] = "act_write"
  /\ now < MaxClock
  /\ Write(UpdateEq(cards, req[p].card_id, ActivateData(now)))
  /\ Finish(p, req[p], Reply(200, TRUE, "none"))
  /\ UNCHANGED <<gen, rev, ids, scanDefault, media>>
  /\ Track({})

\* ================================== IncrementScanCount (revision C) =====
\* app.post('/api/increment-scan'): read scan_count, then write count + 1
CurrentCount_m(card) == 0

\* card?.scan_count || 0
CurrentCount(card) == OrN(card.scan_count, 0)

Inc_Read(p) ==
  /\ rev = "C" /\ Free(p)
  /\ \E id \in ids :
       LET q == [op |-> "scan", card_id |-> id, body |-> NoBody]
           r == Single(SelectEq(cards, id))
       IN  IF ~r.found
           THEN Finish(p, q, Reply(200, FALSE, "fetch"))
           ELSE Await(p, q, "inc_write",
                      [NoLoc EXCEPT !.n = CurrentCount(r.data)])
  /\ NoWrite
  /\ UNCHANGED <<gen, rev, ids, scanDefault, media>>
  /\ Track({})

Inc_Write_m(p) ==
  /\ rev = "C" /\ pc[p] = "inc_write"
  /\ now < MaxClock
  /\ LET n == CurrentCount(Single(SelectEq(cards, req[p].card_id)).data)
     IN  /\ Write(UpdateEq(cards, req[p].card_id, [scan_count |-> n + 1]))
         /\ Finish(p, req[p], [Reply(200, TRUE, "none") EXCEPT !.count = n + 1])
  /\ UNCHANGED <<gen, rev, ids, scanDefault, media>>
  /\ Track({req[p].card_id})

\* update({ scan_count: currentCount + 1 }) with the count read earlier
Inc_Write(p) ==
  /\ rev = "C" /\ pc[p] = "inc_write"
  /\ now < MaxClock
  /\ Write(UpdateEq(cards, req[p].card_id, [scan_count |-> loc[p].n + 1]))
  /\ Finish(p, req[p], [Reply(200, TRUE, "none") EXCEPT !.count = loc[p].n + 1])
  /\ UNCHANGED <<gen, rev, ids, scanDefault, media>>
  /\ Track({req[p].card_id})

\* ===================================================== upload-media =====
FileNames == {<<"f">>, <<"g", " ">>}

MinFileSize == 100

\* fileName.replace(/[^a-zA-Z0-9._-]/g, '_')
SafeChar(c) ==
  IF c \in {"A", "a", "f", "g", "h", "i", "o", "y", ".", "_", "-"} THEN c ELSE "_"

SafeFileName(s) == [i \in 1..Len(s) |-> SafeChar(s[i])]

\* app.post('/api/upload-media'), revisions A and C: the object path is
\* cardId/Date.now()_safeFileName, upsert: true
UploadStamped(p) ==
  /\ rev \in {"A", "C"} /\ Free(p)
  /\ \E id \in ids, f \in FileNames, size \in {MinFileSize - 1, MinFileSize},
        ok \in BOOLEAN :
       LET q == [op |-> "upload", card_id |-> id, body |-> [NoBody EXCEPT !.file_name = f]]
           o == [folder |-> id, stamp |-> now, name |-> SafeFileName(f)]
       IN  IF size < MinFileSize
           THEN /\ ok
                /\ media' = media /\ now' = now
                /\ Finish(p, q, Reply(400, FALSE, "small"))
           ELSE IF ok
           THEN /\ now < MaxClock
                /\ media' = media \cup {o} /\ now' = now + 1
                /\ Finish(p, q, Reply(200, TRUE, "none"))
           ELSE /\ media' = media /\ now' = now
                /\ Finish(p, q, Reply(500, FALSE, "storage"))
  /\ UNCHANGED <<gen, rev, ids, scanDefault, cards>>
  /\ Track({})

\* app.post('/api/upload-media'), revision B: the object path is
\* cardId/fileName, upsert: true
UploadB(p) ==
  /\ rev = "B" /\ Free(p)
  /\ \E id \in ids, f \in {<<"f">>}, ok \in BOOLEAN :
       LET q == [op |-> "upload", card_id |-> id, body |-> [NoBody EXCEPT !.file_name = f]]
           o == [folder |-> id, stamp |-> NullN, name |-> f]
       IN  IF ok
           THEN /\ now < MaxClock
                /\ media' = media \cup {o} /\ now' = now + 1
                /\ Finish(p, q, Reply(200, TRUE, "none"))
           ELSE /\ media' = media /\ now' = now
                /\ Finish(p, q, Reply(500, FALSE, "storage"))
  /\ UNCHANGED <<gen, rev, ids, scanDefault, cards>>
  /\ Track({})

\* ===================================================== the generator ====
\* generateCards (generate-cards.js, variant G1) and generateBatch
\* (variant G2): snapshot the ids in the store, draw until BATCH_SIZE new
\* ids or the attempt budget, insert the batch, write the manifest
AttemptFactor == 10
MaxAttempts == BATCH_SIZE * AttemptFactor

\* Math.random().toString(36).substr(2, 8): what a draw can give
RandomStrings == {<<"a">>, <<"h">>, <<"i">>}

generateCardId(v, r) ==
  IF v = "G1" THEN ToUpperCase(r) ELSE <<"C", "_">> \o ToUpperCase(r)

NewCard(v, id, t) == IF v = "G1" THEN PendingRowG1(id, t) ELSE PendingRowG2(id, t)

Header(v) == IF v = "G1" THEN <<"I", "D", ",", "U", "+">> ELSE <<"I", "D", ",", "U">>

\* `${cardId},${qrUrl}` with qrUrl = https://papir.ca/viewer.html?card=${cardId}
CsvRow(id) == id \o <<",">> \o <<"?", "=">> \o id

CardIds(tbl) == {tbl[i].card_id : i \in 1..Len(tbl)}

\* the script starts and awaits select('card_id')
Gen_Fetch ==
  /\ gen.pc = "start"
  /\ \E fetchError \in BOOLEAN :
       gen' = IF fetchError THEN [gen EXCEPT !.pc = "failed", !.error = "fetch"]
              ELSE [gen EXCEPT
                      !.pc = "loop",
                      !.snapshot = CardIds(cards),
                      !.existingDbIds = IF gen.variant = "G2" THEN CardIds(cards) ELSE {},
                      !.existingIds = IF gen.variant = "G1" THEN CardIds(cards) ELSE {},
                      !.csvRows = <<Header(gen.variant)>>]
  /\ NoWrite /\ out' = NoOut
  /\ UNCHANGED <<rev, ids, scanDefault, media, pc, req, loc>>
  /\ Track({})

Gen_Draw_m ==
  /\ gen.pc = "loop"
  /\ gen.generated < BATCH_SIZE /\ gen.attempts < MaxAttempts
  /\ \E r \in RandomStrings :
       LET cardId == generateCardId(gen.variant, r)
       IN  gen' = IF cardId \notin gen.existingDbIds /\ cardId \notin gen.existingIds
                  THEN [gen EXCEPT
                          !.attempts = @ + 1,
                          !.existingIds = @ \cup {cardId},
                          !.newCards = Append(@, NewCard(gen.variant, cardId, now)),
                          !.csvRows = Append(@, CsvRow(cardId)),
                          !.generated = @ + 1]
                  ELSE gen
  /\ NoWrite /\ out' = NoOut
  /\ UNCHANGED <<rev, ids, scanDefault, media, pc, req, loc>>
  /\ Track({})

\* one pass of the while loop
Gen_Draw ==
  /\ gen.pc = "loop"
  /\ gen.generated < BATCH_SIZE /\ gen.attempts < MaxAttempts
  /\ \E r \in RandomStrings :
       LET cardId == generateCardId(gen.variant, r)
       IN  gen' = IF cardId \notin gen.existingDbIds /\ cardId \notin gen.existingIds
                  THEN [gen EXCEPT
                          !.attempts = @ + 1,
                          !.existingIds = @ \cup {cardId},
                          !.newCards = Append(@, NewCard(gen.variant, cardId, now)),
                          !.csvRows = Append(@, CsvRow(cardId)),
                          !.generated = @ + 1]
                  ELSE [gen EXCEPT !.attempts = @ + 1]
  /\ NoWrite /\ out' = NoOut
  /\ UNCHANGED <<rev, ids, scanDefault, media, pc, req, loc>>
  /\ Track({})

BudgetSpent_m(attempts) == FALSE

\* if (attempts >= maxAttempts) return
BudgetSpent(attempts) == attempts >= MaxAttempts

\* the loop ends; the budget check; the script awaits insert(newCards)
Gen_Exit ==
  /\ gen.pc = "loop"
  /\ ~(gen.generated < BATCH_SIZE /\ gen.attempts < MaxAttempts)
  /\ gen' = [gen EXCEPT !.pc = IF BudgetSpent(gen.attempts) THEN "aborted" ELSE "insert"]
  /\ NoWrite /\ out' = NoOut
  /\ UNCHANGED <<rev, ids, scanDefault, media, pc, req, loc>>
  /\ Track({})

Gen_Insert_m ==
  /\ gen.pc = "insert"
  /\ \E insertError \in BOOLEAN :
       IF insertError \/ ~InsertOk(cards, gen.newCards)
       THEN NoWrite /\ gen' = [gen EXCEPT !.pc = "write"]
       ELSE /\ now < MaxClock
            /\ Write(InsertRows(cards, gen.newCards, scanDefault))
            /\ gen' = [gen EXCEPT !.pc = "write"]
  /\ out' = NoOut
  /\ UNCHANGED <<rev, ids, scanDefault, media, pc, req, loc>>
  /\ Track({})

Gen_Insert_partial ==
  /\ gen.pc = "insert"
  /\ \E insertError \in BOOLEAN :
       IF insertError
       THEN NoWrite /\ gen' = [gen EXCEPT !.pc = "failed"]
       ELSE /\ now < MaxClock
            /\ Write(InsertRows(cards, SelectSeq(gen.newCards,
                                                 LAMBDA c : ~HasKey(cards, c.card_id)),
                                scanDefault))
            /\ gen' = [gen EXCEPT !.pc = IF InsertOk(cards, gen.newCards)
                                         THEN "write" ELSE "failed"]
  /\ out' = NoOut
  /\ UNCHANGED <<rev, ids, scanDefault, media, pc, req, loc>>
  /\ Track({})

\* the insert answers: an error ends the script
Gen_Insert ==
  /\ gen.pc = "insert"
  /\ \E insertError \in BOOLEAN :
       IF insertError \/ ~InsertOk(cards, gen.newCards)
       THEN /\ NoWrite
            /\ gen' = [gen EXCEPT !.pc = "failed",
                                  !.error = IF InsertOk(cards, gen.newCards)
                                            THEN "insert" ELSE "23505"]
       ELSE /\ now < MaxClock
            /\ Write(InsertRows(cards, gen.newCards, scanDefault))
            /\ gen' = [gen EXCEPT !.pc = "write"]
  /\ out' = NoOut
  /\ UNCHANGED <<rev, ids, scanDefault, media, pc, req, loc>>
  /\ Track({})

\* fs.writeFileSync(OUTPUT_FILE, csvRows.join('\n')): the file as its lines
Gen_WriteFile ==
  /\ gen.pc = "write"
  /\ gen' = [gen EXCEPT !.pc = "done", !.manifest = gen.csvRows]
  /\ NoWrite /\ out' = NoOut
  /\ UNCHANGED <<rev, ids, scanDefault, media, pc, req, loc>>
  /\ Track({})

\* a store holding the rows of an earlier batch of n cards
RECURSIVE EarlierBatch(_, _, _)
EarlierBatch(v, n, sd) ==
  IF n = 0 THEN <<>>
  ELSE LET r == IF n = 1 THEN <<"a">> ELSE <<"h">>
       IN  Append(EarlierBatch(v, n - 1, sd), NewRow(NewCard(v, generateCardId(v, r), 0), sd))

InitGen ==
  /\ rev = "C" /\ ids = {}
  /\ scanDefault \in {0, NullN}
  /\ \E v \in {"G1", "G2"}, n \in 0..2 :
       /\ gen = [GenOff EXCEPT !.pc = "start", !.variant = v]
       /\ cards = EarlierBatch(v, n, scanDefault)
  /\ media = {}
  /\ now = 0
  /\ pc = [p \in Procs |-> "idle"]
  /\ req = [p \in Procs |-> NoReq]
  /\ loc = [p \in Procs |-> NoLoc]
  /\ out = NoOut
  /\ hist = [k \in AllKeys |-> [used |-> HasKey(cards, k), wasActive |-> FALSE,
                                activations |-> 0, scans |-> 0,
                                saved |-> FALSE, deleted |-> FALSE]]

NextGen == Gen_Fetch \/ Gen_Draw \/ Gen_Exit \/ Gen_Insert \/ Gen_WriteFile

SpecGen == InitGen /\ [][NextGen]_vars

\* the script is a single thread that runs on whenever it can: its loop
\* passes are synchronous and its awaits are answered
SpecGenLive == InitGen /\ [][NextGen]_vars /\ WF_vars(NextGen)

\* ============================================================ Next ======
Begin(p) ==
  \/ SaveA(p) \/ SaveB_Check(p) \/ SaveC_Check(p) \/ SaveU(p)
  \/ GetA(p) \/ GetUpper(p) \/ GetC(p) \/ ListCards(p)
  \/ DeleteSoft(p) \/ DeleteB_Row(p) \/ DeleteU(p)
  \/ Activate_Read(p) \/ Inc_Read(p)
  \/ UploadB(p) \/ PrePrint(p)

Step(p) ==
  \/ SaveB_Write(p) \/ SaveC_Write(p)
  \/ DeleteB_List(p) \/ DeleteB_Remove(p)
  \/ Activate_Write(p) \/ Inc_Write(p)

Next == \E p \in Procs : Begin(p) \/ Step(p)

Spec == Init /\ [][Next]_vars

\* requests one after another: a single slot, so that a request starts only
\* when the one before it has been answered
NextSeq == Begin(1) \/ Step(1)

SpecSeq == Init /\ [][NextSeq]_vars

\* revision C alone, requests overlapping
\* overlapping requests of the activation deployment, about one card
InitC == InitRev({"C"}, {{PlainId}, {PrefixedId}})

NextC ==
  \E p \in Procs :
    \/ SaveC_Check(p) \/ SaveC_Write(p)
    \/ GetC(p) \/ ListCards(p) \/ DeleteSoft(p)
    \/ Activate_Read(p) \/ Activate_Write(p)
    \/ Inc_Read(p) \/ Inc_Write(p)
    \/ PrePrint(p)

SpecC == InitC /\ [][NextC]_vars

\* viewers scanning one card that was printed earlier: the store holds the
\* pending row of the bulk insert when the first request arrives
InitScan ==
  /\ gen = GenOff
  /\ rev = "C"
  /\ ids \in {{PlainId}, {PrefixedId}}
  /\ scanDefault \in {0, NullN}
  /\ cards = InsertRows(<<>>, <<IF PlainId \in ids THEN PendingRowG1(PlainId, 0)
                                ELSE PendingRowG2(PrefixedId, 0)>>, scanDefault)
  /\ media = {}
  /\ now = 0
  /\ pc = [p \in Procs |-> "idle"]
  /\ req = [p \in Procs |-> NoReq]
  /\ loc = [p \in Procs |-> NoLoc]
  /\ out = NoOut
  /\ hist = [k \in AllKeys |-> [used |-> HasKey(cards, k), wasActive |-> FALSE,
                                activations |-> 0, scans |-> 0,
                                saved |-> FALSE, deleted |-> FALSE]]

NextScan ==
  \E p \in Procs :
    \/ Inc_Read(p) \/ Inc_Write(p)
    \/ Activate_Read(p) \/ Activate_Write(p)
    \/ GetC(p)

SpecScan == InitScan /\ [][NextScan]_vars

\* media uploads and deletes of the server.js revisions, one request at a
\* time
InitMedia == InitRev({"A", "B", "C"}, {RawIds \ {PrefixedId}})

NextMedia ==
  \/ UploadStamped(1) \/ UploadB(1)
  \/ DeleteSoft(1)
  \/ DeleteB_Row(1) \/ DeleteB_List(1) \/ DeleteB_Remove(1)

SpecMedia == InitMedia /\ [][NextMedia]_vars

\* a generator run while the store is written by others: a Save, or the
\* bulk insert of another run, can insert a card_id of the batch after the
\* run has taken its snapshot
InitGenRace ==
  /\ rev = "C" /\ ids \in {{PlainId}, {PrefixedId}}
  /\ scanDefault \in {0, NullN}
  /\ gen = [GenOff EXCEPT !.pc = "start",
                          !.variant = IF PlainId \in ids THEN "G1" ELSE "G2"]
  /\ cards = <<>>
  /\ media = {}
  /\ now = 0
  /\ pc = [p \in Procs |-> "idle"]
  /\ req = [p \in Procs |-> NoReq]
  /\ loc = [p \in Procs |-> NoLoc]
  /\ out = NoOut
  /\ hist = [k \in AllKeys |-> [used |-> FALSE, wasActive |-> FALSE,
                                activations |-> 0, scans |-> 0,
                                saved |-> FALSE, deleted |-> FALSE]]

NextGenRace ==
  \/ NextGen
  \/ PrePrint(1)
  \/ SaveC_Check(1) \/ SaveC_Write(1)

SpecGenRace == InitGenRace /\ [][NextGenRace]_vars

\* ========================================================== properties ==
Rows(tbl) == {tbl[i] : i \in 1..Len(tbl)}

RowsOf(tbl, keys) == {r \in Rows(tbl) : r.card_id \in keys}

\* the keys a handler can derive from the card_id of a request
Norm(id) == {id, Trim(id), ToUpperCase(id)}

C2_SecondSaveUpdates ==
  [][ (/\ out'.req.op = "save"
       /\ hist[out'.req.card_id].saved
       /\ TruthyS(out'.req.body.message_text)
       /\ \E r \in RowsOf(cards, Norm(out'.req.card_id)) :
            r.message_text \notin {out'.req.body.message_text,
                                   Trim(out'.req.body.message_text)})
      => (/\ out'.resp.success
          /\ Cardinality(RowsOf(cards', Norm(out'.req.card_id))) = 1
          /\ \A r \in RowsOf(cards', Norm(out'.req.card_id)) :
               r.message_text \in {out'.req.body.message_text,
                                   Trim(out'.req.body.message_text)}) ]_vars

\* the step in which an Activate call reads the row of card_id id
ActivateReads(id) ==
  \/ out'.req.op = "activate" /\ out'.req.card_id = id /\ pc' = pc
  \/ \E p \in Procs : /\ pc[p] = "idle" /\ pc'[p] = "act_write"
                      /\ req'[p].card_id = id

\* C3: an Activate call that finds the row of its card_id with a status
\* other than pending (active or deleted) answers the already-activated
\* failure at once and writes nothing: the store is the same after the
\* step, so every field of the row, the status and the four activation
\* stamps included, keeps its value; this holds with other requests in
\* flight.
C3_ActivateNonPendingRejected ==
  [][ \A id \in ids :
        (/\ ActivateReads(id)
         /\ \E r \in Rows(cards) : r.card_id = id /\ r.status # "pending")
        => (/\ out'.req.op = "activate" /\ out'.req.card_id = id
            /\ ~out'.resp.success /\ out'.resp.error = "already"
            /\ pc' = pc
            /\ cards' = cards) ]_vars

\* an Activate has just been refused on an active row that carries its
\* activation stamps
C3_Witness ==
  /\ out.req.op = "activate" /\ out.resp.error = "already"
  /\ \E r \in Rows(cards) :
       /\ r.card_id = out.req.card_id /\ r.status = "active"
       /\ r.activated_at # NullN /\ r.activated_by_ip = ClientIp

\* C4: with requests served one after another, the scan_count of every row
\* (null counting as 0) is the number of IncrementScanCount calls answered
\* with success for its card_id, and the call just answered returns that
\* number: after N calls the row holds N and the k-th call returned k.
C4_SequentialScansCount ==
  /\ \A r \in Rows(cards) : OrN(r.scan_count, 0) = hist[r.card_id].scans
  /\ (out.req.op = "scan" /\ out.resp.success)
       => /\ out.resp.count = hist[out.req.card_id].scans
          /\ \E r \in Rows(cards) :
               r.card_id = out.req.card_id /\ r.scan_count = out.resp.count

\* the second scan of a card whose scan_count started as null has answered
C4_Witness ==
  /\ out.req.op = "scan" /\ out.resp.success /\ out.resp.count = 2
  /\ scanDefault = NullN /\ out.req.card_id = PrefixedId
  /\ \E r \in Rows(cards) : r.card_id = PrefixedId /\ r.scan_count = 2

\* C5: in the revisions with the soft delete (A and C), a Get of a card_id
\* answered after a successful Delete of that card_id, with no successful
\* Save of it in between, answers 404.
C5_GetAfterDeleteNotFound ==
  (/\ rev \in {"A", "C"}
   /\ out.req.op = "get"
   /\ hist[out.req.card_id].deleted)
  => out.resp.code = 404

\* C6: the answer of List holds exactly the rows whose status is not
\* deleted, so that no deleted row is listed.
C6_ListOmitsDeleted ==
  (out.req.op = "list" /\ out.resp.success)
  => /\ \A r \in Rows(out.resp.list) : r.status # "deleted"
     /\ Rows(out.resp.list) = {r \in Rows(cards) : r.status # "deleted"}

\* C7: a generator run that took its snapshot from an empty store, whose
\* store calls did not fail, and that has drawn BATCH_SIZE distinct ids
\* ends done: the BATCH_SIZE ids are pairwise distinct, each is a row of
\* the store, and the manifest is the header line followed by one row per
\* id.
C7_GeneratorCompletes ==
  (/\ gen.pc \in {"aborted", "done"}
   /\ gen.snapshot = {}
   /\ gen.generated = BATCH_SIZE)
  => (/\ gen.pc = "done"
      /\ Cardinality({gen.newCards[i].card_id : i \in 1..Len(gen.newCards)}) = BATCH_SIZE
      /\ \A i \in 1..Len(gen.newCards) : HasKey(cards, gen.newCards[i].card_id)
      /\ Len(gen.manifest) = BATCH_SIZE + 1
      /\ gen.manifest[1] = Header(gen.variant)
      /\ \A i \in 1..Len(gen.newCards) :
           gen.manifest[i + 1] = CsvRow(gen.newCards[i].card_id))

\* C8: once the attempt budget is used up with fewer than BATCH_SIZE ids
\* drawn, the run goes nowhere but to its abort: no row of the batch is in
\* the store, the store is as the snapshot found it, and no manifest is
\* written, however many ids were collected.
C8_ExhaustedBudgetAborts ==
  (gen.attempts >= MaxAttempts /\ gen.generated < BATCH_SIZE)
  => (/\ gen.pc \in {"loop", "aborted"}
      /\ \A i \in 1..Len(gen.newCards) : ~HasKey(cards, gen.newCards[i].card_id)
      /\ CardIds(cards) = gen.snapshot
      /\ gen.manifest = NoFile)

\* a run has aborted on its budget with one id collected, short of the batch
C8_Witness ==
  /\ gen.pc = "aborted"
  /\ gen.attempts = MaxAttempts
  /\ gen.generated = 1 /\ Len(gen.newCards) = 1 /\ BATCH_SIZE > 1

\* C9: a card_id whose row has had status active has no row with status
\* pending, and its row has gone from pending to active at most once.
C9_ActiveNeverPendingAgain ==
  \A k \in AllKeys :
    /\ hist[k].wasActive => ~StatusIn(cards, k, "pending")
    /\ hist[k].activations <= 1

\* C10: the store never holds two rows with one card_id, and no step gives
\* a row to a card_id that identified a row before and has none now.
C10_UniqueAndNeverReused ==
  [][ /\ \A i, j \in 1..Len(cards') :
           cards'[i].card_id = cards'[j].card_id => i = j
      /\ \A k \in AllKeys :
           (hist[k].used /\ ~HasKey(cards, k)) => ~HasKey(cards', k) ]_vars

\* the columns a Save carries content in, and those a request may omit
ContentCols ==
  {"message_type", "message_text", "media_url", "file_name", "file_size", "file_type"}

OptionalCols == ContentCols \ {"message_type"}

\* C11: in revision C, a Save answered while the row of its card_id has
\* status pending is answered 403 and leaves the content fields of that
\* row as they were.
C11_SaveOnPendingRefused ==
  [][ (/\ rev = "C"
       /\ out'.req.op = "save"
       /\ \E r \in Rows(cards) :
            r.card_id = out'.req.card_id /\ r.status = "pending")
      => (/\ out'.resp.code = 403
          /\ \A r \in Rows(cards), n \in Rows(cards') :
               (r.card_id = out'.req.card_id /\ n.card_id = r.card_id)
               => \A c \in ContentCols : n[c] = r[c]) ]_vars

\* C12: in the revisions whose Save updates (B and C), a successful Save
\* of a card_id whose row exists with status active leaves every optional
\* field the request does not carry at the value the row had.
C12_OmittedFieldsKept ==
  [][ (/\ rev \in {"B", "C"}
       /\ out'.req.op = "save" /\ out'.resp.success)
      => \A r \in Rows(cards), n \in Rows(cards') :
           (/\ r.card_id = out'.req.card_id /\ n.card_id = r.card_id
            /\ r.status = "active")
           => \A c \in OptionalCols :
                IsUndefAt(c, out'.req.body[c]) => n[c] = r[c] ]_vars

\* C13: in revision C, a step in which Save, Delete, Activate or
\* IncrementScanCount writes a row (a new row, or a row with a changed
\* field) leaves that row with updated_at at the time of the write.
C13_UpdatedAtRefreshed ==
  [][ (rev = "C" /\ out'.req.op \in {"save", "delete", "activate", "scan"})
      => \A n \in Rows(cards') \ Rows(cards) : n.updated_at = now ]_vars

\* C14: when a Save that saw its card_id absent resumes after an
\* overlapping Save has inserted the row of that card_id, its insert is
\* rejected, it is answered 409, and the store keeps exactly that one row.
C14_LosingInsertAnswered409 ==
  [][ \A p \in Procs :
        (/\ pc[p] = "save_write" /\ pc'[p] = "idle"
         /\ ~loc[p].found
         /\ \E r \in Rows(cards) : /\ r.card_id = Trim(req[p].card_id)
                                   /\ r.created_by_ip = ClientIp)
        => (/\ out'.resp.code = 409
            /\ cards' = cards
            /\ Cardinality(RowsOf(cards', {Trim(req[p].card_id)})) = 1) ]_vars

\* C15: no step lowers the stored scan_count of a card, overlapping
\* IncrementScanCount calls on the same card included (an unset count
\* reads as 0, as the handler reads it).
C15_ScanCountNeverDecreases ==
  [][ \A r \in Rows(cards), n \in Rows(cards') :
        n.card_id = r.card_id => CurrentCount(n) >= CurrentCount(r) ]_vars

\* C16: a Get that directly follows a successful Save and names the same
\* card_id string succeeds and returns the row that Save stored.
C16_GetAfterSaveReturnsRow ==
  [][ (/\ out.req.op = "save" /\ out.resp.success
       /\ out'.req.op = "get" /\ out'.req.card_id = out.req.card_id)
      => (out'.resp.success /\ out'.resp.card = out.resp.card) ]_vars

Stamped(r) ==
  /\ r.activated_at # NullN /\ r.activated_by_ip = ClientIp
  /\ r.terms_accepted_at # NullN /\ r.terms_accepted_ip = ClientIp

\* C17: in revision C, the step in which a successful Activate writes
\* leaves the row active with activated_at, activated_by_ip,
\* terms_accepted_at and terms_accepted_ip set, its content fields and
\* scan_count as they were, and every other row untouched; and no step
\* ends in a state where a row is active while a stamp is unset.
C17_ActivateStampsWithStatus ==
  [][ /\ (rev = "C" /\ out'.req.op = "activate" /\ out'.resp.success)
         => /\ Len(cards') = Len(cards)
            /\ \A i \in 1..Len(cards) :
                 IF cards[i].card_id = out'.req.card_id
                 THEN /\ cards'[i].status = "active" /\ Stamped(cards'[i])
                      /\ cards'[i].activated_at = now
                      /\ \A c \in ContentCols \cup {"scan_count", "card_id"} :
                           cards'[i][c] = cards[i][c]
                 ELSE cards'[i] = cards[i]
      /\ rev = "C" => \A n \in Rows(cards') : n.status = "active" => Stamped(n) ]_vars

\* a card that a Save filled in has just been activated
C17_Witness ==
  /\ rev = "C" /\ out.req.op = "activate" /\ out.resp.success
  /\ \E r \in Rows(cards) :
       /\ r.card_id = out.req.card_id /\ r.status = "active" /\ Stamped(r)
       /\ r.created_by_ip = ClientIp /\ r.message_text = HI

\* C18: in revision B, once Delete has removed the record, the steps that
\* list and remove the card's media never change the table, and the answer
\* is 200 success with the record absent, whether or not the media store
\* failed.
C18_MediaFailureSwallowed ==
  [][ \A p \in Procs :
        (rev = "B" /\ pc[p] \in {"del_list", "del_remove"} /\ pc'[p] # pc[p])
        => /\ cards' = cards
           /\ pc'[p] = "idle"
              => /\ out'.req = req[p]
                 /\ out'.resp.code = 200 /\ out'.resp.success
                 /\ ~HasKey(cards', req[p].card_id) ]_vars

\* a Delete has answered success for a saved card whose media objects are
\* still in the store: the listing or the removal failed
C18_Witness ==
  /\ rev = "B" /\ out.req.op = "delete" /\ out.resp.success
  /\ hist[out.req.card_id].used
  /\ ~HasKey(cards, out.req.card_id)
  /\ Folder(media, out.req.card_id) # {}

\* C19: the generator's manifest file exists only once the run has passed
\* a successful bulk insert: a run that failed, aborted or has not inserted
\* yet has no manifest, and a written manifest lists exactly the ids of the
\* batch, each of which is a row of the store.
C19_ManifestOnlyAfterInsert ==
  /\ gen.pc \in {"start", "loop", "insert", "write", "failed", "aborted"}
       => gen.manifest = NoFile
  /\ gen.manifest # NoFile
       => /\ gen.pc = "done"
          /\ Len(gen.manifest) = Len(gen.newCards) + 1
          /\ \A i \in 1..Len(gen.newCards) :
               /\ gen.manifest[i + 1] = CsvRow(gen.newCards[i].card_id)
               /\ HasKey(cards, gen.newCards[i].card_id)

\* the bulk insert of a full batch has failed and no manifest was written
C19_Witness ==
  /\ gen.pc = "failed" /\ gen.error = "insert" /\ gen.generated = BATCH_SIZE
  /\ Len(gen.newCards) = BATCH_SIZE
  /\ \E i \in 1..Len(gen.newCards) : ~HasKey(cards, gen.newCards[i].card_id)
  /\ gen.manifest = NoFile

\* C20: in every reachable state, the media store holds at most one object
\* under the folder of any card_id.
C20_OneObjectPerCard ==
  \A id \in ids : Cardinality(Folder(media, id)) <= 1

BatchIds == {gen.newCards[i].card_id : i \in 1..Len(gen.newCards)}

\* C21: the step in which the generator's bulk insert is answered either
\* leaves the table as it was and ends the run as failed, or adds one
\* pending row for every card_id of the batch, none of which was in the
\* table; no other step of the run writes the table.
C21_BatchAllOrNothing ==
  [][ /\ (gen.pc = "insert" /\ gen'.pc # "insert")
         => \/ gen'.pc = "failed" /\ cards' = cards
            \/ /\ gen'.pc = "write"
               /\ BatchIds \cap CardIds(cards) = {}
               /\ Len(cards') = Len(cards) + Len(gen.newCards)
               /\ \A id \in BatchIds : StatusIn(cards', id, "pending")
               /\ Rows(cards) \subseteq Rows(cards')
      /\ (gen' # gen /\ gen.pc # "insert") => cards' = cards ]_vars

\* the run has failed at its insert because a card_id of its batch was
\* inserted by someone else after the snapshot; the rest of the batch is
\* not in the table
C21_Witness ==
  /\ gen.pc = "failed" /\ gen.error = "23505" /\ Len(gen.newCards) = BATCH_SIZE
  /\ \E id \in BatchIds : id \notin gen.snapshot /\ HasKey(cards, id)
  /\ \E id \in BatchIds : ~HasKey(cards, id)

\* C22: of two Activate calls on one card whose reads both saw it
\* pending, the one that writes second is answered the already-activated
\* failure and leaves the activation stamps of the first as they were.
C22_SecondActivateRejected ==
  [][ \A p \in Procs :
        (/\ rev = "C" /\ pc[p] = "act_write" /\ pc'[p] = "idle"
         /\ StatusIn(cards, req[p].card_id, "active"))
        => /\ ~out'.resp.success /\ out'.resp.error = "already"
           /\ \A r \in Rows(cards), n \in Rows(cards') :
                (r.card_id = req[p].card_id /\ n.card_id = r.card_id)
                => n.activated_at = r.activated_at ]_vars

\* C23: an IncrementScanCount call writes the count it read plus one and
\* reports that number, whatever the stored count has become in between;
\* so two overlapping calls that read the same count c both report c + 1
\* and leave c + 1 in the store.
C23_WritesCountReadPlusOne ==
  [][ \A p \in Procs :
        (rev = "C" /\ pc[p] = "inc_write" /\ pc'[p] = "idle")
        => /\ out'.resp.success /\ out'.resp.count = loc[p].n + 1
           /\ \A n \in Rows(cards') :
                n.card_id = req[p].card_id => n.scan_count = loc[p].n + 1 ]_vars

\* two IncrementScanCount calls have reported success on a card that
\* started at 0, the last one with count 1, and the stored count is 1
C23_Witness ==
  /\ rev = "C" /\ out.req.op = "scan" /\ out.resp.success /\ out.resp.count = 1
  /\ hist[out.req.card_id].scans = 2
  /\ \E r \in Rows(cards) : r.card_id = out.req.card_id /\ r.scan_count = 1

\* C24: in revision C, every step that changes the status of a card's row
\* takes it from pending to active or from active to deleted.
C24_StatusMovesForward ==
  [][ rev = "C"
      => \A r \in Rows(cards), n \in Rows(cards') :
           (n.card_id = r.card_id /\ n.status # r.status)
           => <<r.status, n.status>> \in {<<"pending", "active">>,
                                           <<"active", "deleted">>} ]_vars

\* C25: when a Delete is answered success and no call of it failed, the
\* media store holds no object under the folder of its card_id: for the
\* soft delete of revisions A and C, and for the hard delete of revision B
\* when its removal of the listed objects took effect.
C25_DeleteClearsMedia ==
  [][ \A p \in Procs :
        /\ (/\ rev \in {"A", "C"} /\ Free(p)
            /\ out'.req.op = "delete" /\ out'.resp.success)
           => Folder(media', out'.req.card_id) = {}
        /\ (/\ rev = "B" /\ pc[p] = "del_remove" /\ pc'[p] = "idle"
            /\ media' # media)
           => Folder(media', req[p].card_id) = {} ]_vars

\* C26: a generator run never counts more than MaxAttempts draws nor more
\* than BATCH_SIZE ids, makes no draw once BATCH_SIZE ids are collected,
\* and always leaves its draw loop.
C26_DrawLoopTerminates ==
  /\ [](gen.attempts <= MaxAttempts /\ gen.generated <= BATCH_SIZE)
  /\ [][ (gen.pc = "loop" /\ gen.generated = BATCH_SIZE)
         => (gen'.pc # "loop" /\ gen'.attempts = gen.attempts) ]_vars
  /\ <>(gen.pc \notin {"start", "loop"})

\* the loop was left after MaxAttempts draws that all collided with ids
\* already in the store
C26_Witness ==
  /\ gen.pc \notin {"start", "loop"}
  /\ gen.attempts = MaxAttempts /\ gen.generated = 0
  /\ gen.snapshot # {}

\* C27: in revision C, no step changes the status of a row that is deleted.
C27_DeletedStaysDeleted ==
  [][ rev = "C"
      => \A r \in Rows(cards), n \in Rows(cards') :
           (n.card_id = r.card_id /\ r.status = "deleted") => n.status = "deleted" ]_vars

\* C28: a generator run that has aborted on its attempt budget had
\* collected fewer than BATCH_SIZE ids.
C28_AbortOnlyWhenShort ==
  gen.pc = "aborted" => gen.generated < BATCH_SIZE

SaveWrittenCols == ContentCols \cup {"updated_at", "updated_by_ip"}

\* C29: in revision C, the step in which a Save is answered leaves every
\* row that was in the table in the table, with all its columns other than
\* the content fields, updated_at and updated_by_ip as they were: status,
\* scan_count, created_at, created_by_ip and the activation stamps among
\* them.
C29_SaveKeepsStatusAndStamps ==
  [][ \A p \in Procs :
        (rev = "C" /\ pc[p] = "save_write" /\ pc'[p] = "idle")
        => \A r \in Rows(cards) : \E n \in Rows(cards') :
             /\ n.card_id = r.card_id
             /\ \A c \in Columns \ SaveWrittenCols : n[c] = r[c] ]_vars

\* a Save has updated the content of a card after its activation: the row
\* is active, stamped, and carries the Save's time in updated_at
C29_Witness ==
  /\ rev = "C" /\ out.req.op = "save" /\ out.resp.success
  /\ \E r \in Rows(cards) :
       /\ r.card_id = out.req.card_id
       /\ r.status = "active" /\ Stamped(r)
       /\ r.updated_at > r.activated_at
       /\ r.updated_by_ip = ClientIp

\* C30: in revision C, every row with status active has activated_at,
\* activated_by_ip, terms_accepted_at and terms_accepted_ip set.
C30_ActiveImpliesStamped ==
  rev = "C" => \A r \in Rows(cards) : r.status = "active" => Stamped(r)

\* a card that was created pending, by the generator or by a Save that
\* stamped created_by_ip, is active after exactly one activation
C30_Witness ==
  /\ rev = "C"
  /\ \E r \in Rows(cards) :
       /\ r.status = "active" /\ Stamped(r)
       /\ r.activated_at > r.created_at
       /\ hist[r.card_id].activations = 1
====
